---- MODULE Spec2Model ----
(***************************************************************************)
(* Command mailbox and serve-once delivery of laundry-os-api, and its      *)
(* stats store.                                                            *)
(*                                                                         *)
(* Two deployments of the mailbox protocol are modelled:                   *)
(*   volatile : src/main.go (in-process maps guarded by one mutex)         *)
(*   durable  : src/laundryStart/main.go + src/laundryLatest/main.go       *)
(*              (one DynamoDB item per device)                             *)
(* and, with the durable deployment, the stats lambdas                     *)
(* src/laundryUpdateStats/main.go and src/laundryGetStats/main.go.         *)
(* The deployment and its shared secret are fixed by Init.  Every request  *)
(* is run by a process (a goroutine / a lambda invocation) whose position  *)
(* in its handler is pc[p]; a handler is cut where it touches shared       *)
(* state, so that concurrent requests interleave as the code allows.       *)
(*                                                                         *)
(* Strings that the code takes apart (device ids, DynamoDB numbers) are    *)
(* sequences of one-character strings; strings that are only compared      *)
(* (tokens, types) are TLA+ strings.                                       *)
(*                                                                         *)
(* Specifications:                                                         *)
(*   Spec      calls one at a time, storage calls succeeding               *)
(*   SpecRace  concurrent calls of one device                              *)
(*   SpecIso   concurrent calls of two devices                             *)
(*   SpecFail  calls one at a time, storage calls succeeding or failing    *)
(*   SpecPair  every call made to both deployments, one after the other    *)
(*   SpecStats the stats lambdas, calls one at a time                      *)
(***************************************************************************)
EXTENDS Integers, Sequences, FiniteSets, TLC

(***************************************************************************)
(* Bounds of the model.                                                    *)
(***************************************************************************)
\* accepted submits in one behaviour
MaxSubmits == 2
\* largest value of the millisecond clock
MaxClock == 2
\* concurrently running requests
NProcs == 2
\* marks of one submit as served that fail
MaxFailedMarks == 1

Procs == 1..NProcs
\* the one process that runs the calls when they are made one at a time
SeqProcs == {1}

(***************************************************************************)
(* Inputs.                                                                 *)
(***************************************************************************)
Secret == "s3cret"
Secrets == {"", Secret}
Tokens == {"", Secret, "wrong"}
\* "", " ", "A", "B " : empty, whitespace only, plain, with a trailing blank
RawIds == {<<>>, <<" ">>, <<"A">>, <<"B", " ">>}
Types == {"wash", "dry", "spin"}
Durations == {0, 30}

StartRequests ==
    [op : {"start"}, method : {"POST"}, json : {TRUE}, deviceId : RawIds,
     token : Tokens, type : Types, durationMinutes : Durations]
    \cup {[op |-> "start", method |-> "GET", json |-> TRUE, deviceId |-> <<"A">>,
           token |-> Secret, type |-> "wash", durationMinutes |-> 30],
          [op |-> "start", method |-> "POST", json |-> FALSE, deviceId |-> <<>>,
           token |-> "", type |-> "", durationMinutes |-> 0]}

LatestRequests ==
    [op : {"latest"}, method : {"GET"}, json : {TRUE}, deviceId : RawIds,
     token : Tokens, type : {""}, durationMinutes : {0}]
    \cup {[op |-> "latest", method |-> "POST", json |-> TRUE, deviceId |-> <<"A">>,
           token |-> Secret, type |-> "", durationMinutes |-> 0]}

Requests == StartRequests \cup LatestRequests

\* the requests of the concurrent runs: valid ones, all for device "A"
RaceRequests ==
    {[op |-> "start", method |-> "POST", json |-> TRUE, deviceId |-> <<"A">>,
      token |-> Secret, type |-> "wash", durationMinutes |-> 30],
     [op |-> "latest", method |-> "GET", json |-> TRUE, deviceId |-> <<"A">>,
      token |-> Secret, type |-> "", durationMinutes |-> 0]}

\* amounts in units of 1/10000: 0, 0.125, 0.1875, 12.5, -0.5
TotalsSpent == {0, 1250, 1875, 125000, -5000}
RunCounts == {12, -1}

\* every amount and count with a good token, every device id and token with
\* one amount and count, and a body that is not JSON
SetStatsRequests ==
    [op : {"setStats"}, json : {TRUE}, deviceId : {<<"A">>, <<"B", " ">>},
     token : {Secret}, totalSpent : TotalsSpent, numRuns : RunCounts]
    \cup [op : {"setStats"}, json : {TRUE}, deviceId : RawIds, token : Tokens,
          totalSpent : {1250}, numRuns : {12}]
    \cup {[op |-> "setStats", json |-> FALSE, deviceId |-> <<>>, token |-> "",
           totalSpent |-> 0, numRuns |-> 0]}

GetStatsRequests ==
    [op : {"getStats"}, json : {TRUE}, deviceId : RawIds, token : Tokens]

StatsRequests == SetStatsRequests \cup GetStatsRequests

NoRequest ==
    [op |-> "none", method |-> "", json |-> TRUE, deviceId |-> <<>>,
     token |-> "", type |-> "", durationMinutes |-> 0]

(***************************************************************************)
(* Library functions the handlers call.                                    *)
(***************************************************************************)
\* crypto/subtle.ConstantTimeCompare(a, b) == 1: equal length and content
timingSafeEq(a, b) == a = b

RECURSIVE TrimLeft(_)
TrimLeft(s) ==
    IF s # <<>> /\ Head(s) = " " THEN TrimLeft(Tail(s)) ELSE s

RECURSIVE TrimRight(_)
TrimRight(s) ==
    IF s # <<>> /\ s[Len(s)] = " " THEN TrimRight(SubSeq(s, 1, Len(s) - 1)) ELSE s

\* strings.TrimSpace
TrimSpace(s) == TrimRight(TrimLeft(s))

DigitChars == <<"0", "1", "2", "3", "4", "5", "6", "7", "8", "9">>

IsDigit(c) == \E i \in 1..10 : DigitChars[i] = c

DigitVal(c) == (CHOOSE i \in 1..10 : DigitChars[i] = c) - 1

RECURSIVE FormatNat(_)
FormatNat(n) ==
    IF n < 10 THEN <<DigitChars[n + 1]>>
    ELSE FormatNat(n \div 10) \o <<DigitChars[(n % 10) + 1]>>

\* strconv.FormatInt(n, 10), strconv.Itoa(n)
FormatInt(n) == IF n < 0 THEN <<"-">> \o FormatNat(-n) ELSE FormatNat(n)

RECURSIVE mustInt64Loop(_, _)
mustInt64Loop(s, n) ==
    IF s = <<>> \/ ~IsDigit(Head(s)) THEN n
    ELSE mustInt64Loop(Tail(s), n * 10 + DigitVal(Head(s)))

\* variant of mustInt64: the loop ends after the first digit
mustInt64OneDigit(s) ==
    IF s = <<>> \/ ~IsDigit(Head(s)) THEN 0 ELSE DigitVal(Head(s))

\* laundryLatest: decimal prefix of s, 0 when s starts with no digit
mustInt64(s) == mustInt64Loop(s, 0)

\* every character of s is a decimal digit
AllDigits(s) == \A i \in 1..Len(s) : IsDigit(s[i])

\* strconv.ParseInt(s, 10, 64): an optional sign and one or more digits
ParseInt(s) ==
    LET signed == s # <<>> /\ Head(s) \in {"-", "+"}
        digits == IF signed THEN Tail(s) ELSE s
        n == mustInt64Loop(digits, 0)
    IN  IF digits = <<>> \/ ~AllDigits(digits) THEN [ok |-> FALSE, val |-> 0]
        ELSE [ok |-> TRUE, val |-> IF signed /\ Head(s) = "-" THEN -n ELSE n]

\* Amounts of money are float64 values.  The model takes them in units of
\* 1/10000 and only those that a float64 holds exactly (multiples of 1/16), so
\* that rounding to two decimals is decided by the decimal digits.
MoneyUnit == 10000

\* variant of FormatFloat: the digits after the second decimal are cut off
FormatFloatTruncate(x) ==
    LET a == IF x < 0 THEN -x ELSE x
        h == a \div (MoneyUnit \div 100)
    IN  (IF x < 0 THEN <<"-">> ELSE <<>>)
        \o FormatNat(h \div 100)
        \o <<".", DigitChars[((h \div 10) % 10) + 1], DigitChars[(h % 10) + 1]>>

\* strconv.FormatFloat(x, 'f', 2, 64): the sign, the integer digits, a point
\* and two decimals, rounded to nearest, a tie to the even digit
FormatFloat(x) ==
    LET a == IF x < 0 THEN -x ELSE x
        q == a \div (MoneyUnit \div 100)
        r == a % (MoneyUnit \div 100)
        half == MoneyUnit \div 200
        h == IF r > half \/ (r = half /\ q % 2 = 1) THEN q + 1 ELSE q
    IN  (IF x < 0 THEN <<"-">> ELSE <<>>)
        \o FormatNat(h \div 100)
        \o <<".", DigitChars[((h \div 10) % 10) + 1], DigitChars[(h % 10) + 1]>>

\* index of the first "." of s, Len(s) + 1 when s has none
RECURSIVE PointAt(_, _)
PointAt(s, i) ==
    IF i > Len(s) \/ s[i] = "." THEN i ELSE PointAt(s, i + 1)

\* the value of the decimals d, in units of 1/10000 (further decimals dropped)
RECURSIVE FractionVal(_, _)
FractionVal(d, scale) ==
    IF d = <<>> \/ scale = 0 THEN 0
    ELSE DigitVal(Head(d)) * scale + FractionVal(Tail(d), scale \div 10)

\* strconv.ParseFloat(s, 64) of a decimal without exponent: an optional sign,
\* digits, an optional point and digits, one digit at least
ParseFloat(s) ==
    LET signed == s # <<>> /\ Head(s) \in {"-", "+"}
        body == IF signed THEN Tail(s) ELSE s
        dot == PointAt(body, 1)
        whole == SubSeq(body, 1, dot - 1)
        frac == SubSeq(body, dot + 1, Len(body))
        v == mustInt64Loop(whole, 0) * MoneyUnit
                 + FractionVal(frac, MoneyUnit \div 10)
    IN  IF ~AllDigits(whole) \/ ~AllDigits(frac) \/ Len(whole) + Len(frac) = 0
        THEN [ok |-> FALSE, val |-> 0]
        ELSE [ok |-> TRUE, val |-> IF signed /\ Head(s) = "-" THEN -v ELSE v]

(***************************************************************************)
(* Go maps and DynamoDB tables: partial functions.                         *)
(***************************************************************************)
EmptyMap == [k \in {} |-> 0]

\* variant of MapPut: the other entries are lost
MapPutAlone(m, k, v) == [x \in {k} |-> v]

\* variant of MapPut: an existing entry is kept (first write wins)
MapPutKeep(m, k, v) ==
    [x \in DOMAIN m \cup {k} |-> IF x \in DOMAIN m THEN m[x] ELSE v]

\* m[k] = v
MapPut(m, k, v) ==
    [x \in DOMAIN m \cup {k} |-> IF x = k THEN v ELSE m[x]]

\* the zero value of Command (volatile backend)
ZeroCommand ==
    [deviceId |-> <<>>, type |-> "", durationMinutes |-> 0, createdAt |-> 0,
     token |-> ""]

\* cmd, ok := latestByDevice[deviceID]
LoadCommand(m, k) == IF k \in DOMAIN m THEN m[k] ELSE ZeroCommand

\* lastServedAt[deviceID], 0 for a device never served
LoadServedAt(m, k) == IF k \in DOMAIN m THEN m[k] ELSE 0


(***************************************************************************)
(* State.                                                                  *)
(***************************************************************************)
VARIABLES
    backend,        \* "volatile" or "durable": the deployment that runs
    sharedSecret,   \* SHARED_SECRET of the deployment
    now,            \* the latest reading of time.Now().UnixMilli()
    mu,             \* main.go mu: 0 when free, else the process holding it
    latestByDevice, \* main.go latestByDevice
    lastServedAt,   \* main.go lastServedAt
    table,          \* the DynamoDB table of laundryStart / laundryLatest
    statsTable,     \* the DynamoDB table of laundryUpdateStats / GetStats
    pc,             \* position of each process in its handler
    call,           \* the request each process is serving
    local,          \* the handler's local variables (cmd, ok, deliver)
    resp,           \* the response each process last wrote
    inst,           \* history: inst[k] = n when the store holds, under key
                    \*          k, the n-th submit accepted for k (0: none)
    readInst,       \* history: which submit of its device a poll has read
    delivered,      \* history: delivered[k][n] polls returned the n-th
                    \*          submit accepted for k
    last,           \* history: the submit last accepted for each device
    fresh,          \* history: fresh[k] when no poll of k has been answered
                    \*          since the submit last accepted for k
    lastStats       \* history: the stats last written for each device

config == <<backend, sharedSecret>>
volatileVars == <<mu, latestByDevice, lastServedAt>>
durableVars == <<table, statsTable>>
procVars == <<pc, call, local, resp>>
history == <<inst, readInst, delivered, last, fresh, lastStats>>
vars == <<config, now, volatileVars, durableVars, procVars, history>>

\* no submit was accepted for a device
NoSubmit == [type |-> "", durationMinutes |-> 0, createdAt |-> 0]

\* no stats were written for a device
NoStats == [written |-> FALSE, totalSpent |-> 0, numRuns |-> 0]

\* every key a store can hold
AllKeys == (RawIds \cup {TrimSpace(r) : r \in RawIds}) \ {<<>>}

NoLocal == [cmd |-> ZeroCommand, ok |-> FALSE, deliver |-> FALSE]

NoResp ==
    [status |-> 0, error |-> "", ok |-> FALSE, createdAt |-> 0,
     hasCommand |-> FALSE, command |-> ZeroCommand]

\* writeErr(w, status, msg) / resp(status, {"error": msg})
ErrResp(status, msg) == [NoResp EXCEPT !.status = status, !.error = msg]

\* {"ok": true, "createdAt": t}
OkResp(t) == [NoResp EXCEPT !.status = 200, !.ok = TRUE, !.createdAt = t]

\* LatestResponse{Command: nil}
NullResp == [NoResp EXCEPT !.status = 200]

\* LatestResponse{Command: &cmd}
CommandResp(cmd) ==
    [NoResp EXCEPT !.status = 200, !.hasCommand = TRUE, !.command = cmd]

Init ==
    /\ backend \in {"volatile", "durable"}
    /\ sharedSecret \in Secrets
    /\ now = 1
    /\ mu = 0
    /\ latestByDevice = EmptyMap
    /\ lastServedAt = EmptyMap
    /\ table = EmptyMap
    /\ statsTable = EmptyMap
    /\ pc = [p \in Procs |-> "idle"]
    /\ call = [p \in Procs |-> NoRequest]
    /\ local = [p \in Procs |-> NoLocal]
    /\ resp = [p \in Procs |-> NoResp]
    /\ inst = [k \in AllKeys |-> 0]
    /\ readInst = [p \in Procs |-> 0]
    /\ delivered = [k \in AllKeys |-> [n \in 1..MaxSubmits |-> 0]]
    /\ last = [k \in AllKeys |-> NoSubmit]
    /\ fresh = [k \in AllKeys |-> FALSE]
    /\ lastStats = [k \in AllKeys |-> NoStats]

\* time.Now().UnixMilli(): what a reading of the millisecond clock can return,
\* no earlier than the reading before it
ClockReadings == now..MaxClock

\* a process is free to take a request
Free(p) == pc[p] = "idle"

\* no request is being served
Quiet == \A q \in Procs : Free(q)

\* accepted submits that have reached the store
Issued == Cardinality({x \in AllKeys \X (1..MaxSubmits) : x[2] <= inst[x[1]]})

\* accepted submits that have not reached the store yet
InFlight == Cardinality({q \in Procs : pc[q] \in {"store", "put"}})

\* the request is rejected: the handler answers and returns
Reject(p, req, r) ==
    /\ call' = [call EXCEPT ![p] = req]
    /\ pc' = [pc EXCEPT ![p] = "done"]
    /\ local' = [local EXCEPT ![p] = NoLocal]
    /\ resp' = [resp EXCEPT ![p] = r]
    /\ readInst' = [readInst EXCEPT ![p] = 0]
    /\ UNCHANGED <<config, now, volatileVars, durableVars>>
    /\ UNCHANGED <<inst, delivered, last, fresh, lastStats>>

\* the request passes the checks: the handler goes on at `next`, and t is the
\* clock reading it made (the reading before it when it made none)
Accept(p, req, next, loc, t) ==
    /\ call' = [call EXCEPT ![p] = req]
    /\ pc' = [pc EXCEPT ![p] = next]
    /\ local' = [local EXCEPT ![p] = loc]
    /\ resp' = [resp EXCEPT ![p] = NoResp]
    /\ readInst' = [readInst EXCEPT ![p] = 0]
    /\ now' = t
    /\ UNCHANGED <<config, volatileVars, durableVars>>
    /\ UNCHANGED <<inst, delivered, last, fresh, lastStats>>

\* history of an accepted submit that reached the store under key k
RecordSubmit(k, type, dur, t) ==
    /\ inst' = [inst EXCEPT ![k] = @ + 1]
    /\ last' = [last EXCEPT ![k] =
           [type |-> type, durationMinutes |-> dur, createdAt |-> t]]
    /\ fresh' = [fresh EXCEPT ![k] = TRUE]
    /\ UNCHANGED <<readInst, delivered, lastStats>>

\* history of a poll for key k answered 200, with or without a command
RecordPoll(p, k, deliver) ==
    /\ delivered' = IF deliver /\ readInst[p] \in DOMAIN delivered[k]
                    THEN [delivered EXCEPT ![k][readInst[p]] = @ + 1]
                    ELSE delivered
    /\ fresh' = [fresh EXCEPT ![k] = FALSE]
    /\ UNCHANGED <<inst, readInst, last, lastStats>>

\* the handler has returned and its response is gone to the caller
Return(p) ==
    /\ pc[p] = "done"
    /\ pc' = [pc EXCEPT ![p] = "idle"]
    /\ call' = [call EXCEPT ![p] = NoRequest]
    /\ local' = [local EXCEPT ![p] = NoLocal]
    /\ resp' = [resp EXCEPT ![p] = NoResp]
    /\ readInst' = [readInst EXCEPT ![p] = 0]
    /\ UNCHANGED <<config, now, volatileVars, durableVars>>
    /\ UNCHANGED <<inst, delivered, last, fresh, lastStats>>

(***************************************************************************)
(* Volatile backend: src/main.go.                                          *)
(***************************************************************************)
\* variant of startMachineCheck: the test of DurationMinutes is missing
startMachineCheckNoDuration(req, secret) ==
    IF req.method # "POST" THEN ErrResp(405, "method not allowed")
    ELSE IF ~req.json THEN ErrResp(400, "invalid json")
    ELSE IF req.token = "" \/ ~timingSafeEq(req.token, secret)
         THEN ErrResp(401, "unauthorized")
    ELSE IF req.deviceId = <<>> THEN ErrResp(400, "deviceId required")
    ELSE IF req.type # "wash" /\ req.type # "dry"
         THEN ErrResp(400, "type must be wash or dry")
    ELSE NoResp

\* startMachine, the checks before the store: the error response, or NoResp
\* (status 0) when the request passes
startMachineCheck(req, secret) ==
    IF req.method # "POST" THEN ErrResp(405, "method not allowed")
    ELSE IF ~req.json THEN ErrResp(400, "invalid json")
    ELSE IF req.token = "" \/ ~timingSafeEq(req.token, secret)
         THEN ErrResp(401, "unauthorized")
    ELSE IF req.deviceId = <<>> THEN ErrResp(400, "deviceId required")
    ELSE IF req.type # "wash" /\ req.type # "dry"
         THEN ErrResp(400, "type must be wash or dry")
    ELSE IF req.durationMinutes <= 0
         THEN ErrResp(400, "duration must be greater than 0 minutes")
    ELSE NoResp

\* variant of stampCommand: the token of the request stays in the command
stampCommandKeepToken(req, t) ==
    [deviceId |-> req.deviceId, type |-> req.type,
     durationMinutes |-> req.durationMinutes, createdAt |-> t,
     token |-> req.token]

\* the decoded command after cmd.CreatedAt = time.Now().UnixMilli() and
\* cmd.Token = ""
stampCommand(req, t) ==
    [deviceId |-> req.deviceId, type |-> req.type,
     durationMinutes |-> req.durationMinutes, createdAt |-> t, token |-> ""]

\* startMachine up to the lock: decode, check, stamp createdAt, drop the token
startMachine(p, req) ==
    /\ backend = "volatile"
    /\ Free(p)
    /\ req.op = "start"
    /\ LET r == startMachineCheck(req, sharedSecret) IN
       IF r.status # 0 THEN Reject(p, req, r)
       ELSE /\ Issued + InFlight < MaxSubmits
            /\ \E t \in ClockReadings :
                   Accept(p, req, "store",
                       [NoLocal EXCEPT !.cmd = stampCommand(req, t)], t)

\* variant of muFree: the handlers do not wait for mu
muFreeNoLock == TRUE

\* mu.Lock() returns only when no other goroutine holds mu
muFree == mu = 0

\* startMachine: mu.Lock(); latestByDevice[id] = cmd; mu.Unlock(); writeJSON
startMachine_store(p) ==
    /\ backend = "volatile"
    /\ pc[p] = "store"
    /\ muFree
    /\ LET cmd == local[p].cmd IN
       /\ latestByDevice' = MapPut(latestByDevice, cmd.deviceId, cmd)
       /\ resp' = [resp EXCEPT ![p] = OkResp(cmd.createdAt)]
       /\ RecordSubmit(cmd.deviceId, cmd.type, cmd.durationMinutes, cmd.createdAt)
    /\ pc' = [pc EXCEPT ![p] = "done"]
    /\ UNCHANGED <<config, now, mu, lastServedAt, durableVars, call, local>>

\* getLatest, the checks before the lock
getLatestCheck(req, secret) ==
    IF req.method # "GET" THEN ErrResp(405, "method not allowed")
    ELSE IF req.deviceId = <<>> THEN ErrResp(400, "deviceId required")
    ELSE IF req.token = "" \/ ~timingSafeEq(req.token, secret)
         THEN ErrResp(401, "unauthorized")
    ELSE NoResp

\* getLatest up to the lock
getLatest(p, req) ==
    /\ backend = "volatile"
    /\ Free(p)
    /\ req.op = "latest"
    /\ LET r == getLatestCheck(req, sharedSecret) IN
       IF r.status # 0 THEN Reject(p, req, r)
       ELSE Accept(p, req, "lock", NoLocal, now)

\* getLatest: mu.Lock(); defer mu.Unlock()
getLatest_lock(p) ==
    /\ backend = "volatile"
    /\ pc[p] = "lock"
    /\ muFree
    /\ mu' = p
    /\ pc' = [pc EXCEPT ![p] = "load"]
    /\ UNCHANGED <<config, now, latestByDevice, lastServedAt, durableVars>>
    /\ UNCHANGED <<call, local, resp, history>>

\* getLatest: cmd, ok := latestByDevice[deviceID]; if !ok { answer nil }
getLatest_load(p) ==
    /\ backend = "volatile"
    /\ pc[p] = "load"
    /\ LET k == call[p].deviceId
           ok == k \in DOMAIN latestByDevice IN
       /\ local' = [local EXCEPT ![p] =
              [cmd |-> LoadCommand(latestByDevice, k), ok |-> ok, deliver |-> FALSE]]
       /\ readInst' = [readInst EXCEPT ![p] = inst[k]]
       /\ pc' = [pc EXCEPT ![p] = IF ok THEN "compare" ELSE "write"]
    /\ UNCHANGED <<config, now, volatileVars, durableVars, call, resp>>
    /\ UNCHANGED <<inst, delivered, last, fresh, lastStats>>

\* variant of Served: the test is missing, a stored command always counts as new
ServedNever(served, createdAt) == FALSE

\* variant of Served: > in place of >=
ServedStrict(served, createdAt) == served > createdAt

\* if lastServedAt[deviceID] >= cmd.CreatedAt: already served
Served(served, createdAt) == served >= createdAt

\* getLatest: the serve-once test
getLatest_compare(p) ==
    /\ backend = "volatile"
    /\ pc[p] = "compare"
    /\ pc' = [pc EXCEPT ![p] =
           IF Served(LoadServedAt(lastServedAt, call[p].deviceId),
                     local[p].cmd.createdAt)
           THEN "write" ELSE "mark"]
    /\ UNCHANGED <<config, now, volatileVars, durableVars>>
    /\ UNCHANGED <<call, local, resp, history>>

\* getLatest: lastServedAt[deviceID] = cmd.CreatedAt
getLatest_mark(p) ==
    /\ backend = "volatile"
    /\ pc[p] = "mark"
    /\ lastServedAt' =
           MapPut(lastServedAt, call[p].deviceId, local[p].cmd.createdAt)
    /\ local' = [local EXCEPT ![p].deliver = TRUE]
    /\ pc' = [pc EXCEPT ![p] = "write"]
    /\ UNCHANGED <<config, now, mu, latestByDevice, durableVars>>
    /\ UNCHANGED <<call, resp, history>>

\* getLatest: writeJSON under the lock, then the deferred mu.Unlock()
getLatest_write(p) ==
    /\ backend = "volatile"
    /\ pc[p] = "write"
    /\ resp' = [resp EXCEPT ![p] =
           IF local[p].deliver THEN CommandResp(local[p].cmd) ELSE NullResp]
    /\ mu' = 0
    /\ pc' = [pc EXCEPT ![p] = "done"]
    /\ RecordPoll(p, call[p].deviceId, local[p].deliver)
    /\ UNCHANGED <<config, now, latestByDevice, lastServedAt, durableVars>>
    /\ UNCHANGED <<call, local>>

(***************************************************************************)
(* Durable backend: src/laundryStart/main.go, src/laundryLatest/main.go.   *)
(***************************************************************************)
\* types.AttributeValueMemberS / types.AttributeValueMemberN
AttrS(v) == [S |-> v]

AttrN(v) == [N |-> v]

\* variant of PutItem: attributes the new item lacks are kept from the old
PutItemMerge(tbl, k, item) ==
    MapPut(tbl, k,
        IF k \in DOMAIN tbl
        THEN [a \in DOMAIN tbl[k] \cup DOMAIN item |->
                 IF a \in DOMAIN item THEN item[a] ELSE tbl[k][a]]
        ELSE item)

\* PutItem: the item replaces whatever the table holds under its key
PutItem(tbl, k, item) == MapPut(tbl, k, item)

\* GetItem: out.Item == nil when the table holds nothing under the key
HasItem(tbl, k) == k \in DOMAIN tbl

\* UpdateItem "SET a = v": sets one attribute, creating the item if absent
UpdateItem(tbl, k, a, v) ==
    LET old == IF k \in DOMAIN tbl THEN tbl[k] ELSE [deviceId |-> AttrS(k)] IN
    MapPut(tbl, k, [x \in DOMAIN old \cup {a} |-> IF x = a THEN v ELSE old[x]])

\* laundryStart, the checks before PutItem (the device id already trimmed)
laundryStartCheck(req, secret) ==
    IF ~req.json THEN ErrResp(400, "invalid json")
    ELSE IF req.token = "" \/ secret = "" \/ ~timingSafeEq(req.token, secret)
         THEN ErrResp(401, "unauthorized")
    ELSE IF TrimSpace(req.deviceId) = <<>> THEN ErrResp(400, "deviceId required")
    ELSE IF req.type # "wash" /\ req.type # "dry"
         THEN ErrResp(400, "type must be wash or dry")
    ELSE IF req.durationMinutes <= 0
         THEN ErrResp(400, "durationMinutes must be > 0")
    ELSE NoResp

\* laundryStart up to PutItem: decode, trim, check, read the clock
laundryStart(p, req) ==
    /\ backend = "durable"
    /\ Free(p)
    /\ req.op = "start"
    /\ LET r == laundryStartCheck(req, sharedSecret) IN
       IF r.status # 0 THEN Reject(p, req, r)
       ELSE /\ Issued + InFlight < MaxSubmits
            /\ \E t \in ClockReadings :
                   Accept(p, req, "put",
                       [NoLocal EXCEPT !.cmd =
                           [deviceId |-> TrimSpace(req.deviceId), type |-> req.type,
                            durationMinutes |-> req.durationMinutes,
                            createdAt |-> t]], t)

\* laundryStart: PutItem of the four attributes (no servedAt), then the answer
laundryStart_put(p, ok) ==
    /\ backend = "durable"
    /\ pc[p] = "put"
    /\ LET cmd == local[p].cmd IN
       IF ok
       THEN /\ table' = PutItem(table, cmd.deviceId,
                   [deviceId |-> AttrS(cmd.deviceId),
                    type |-> AttrS(cmd.type),
                    durationMinutes |-> AttrN(FormatInt(cmd.durationMinutes)),
                    createdAt |-> AttrN(FormatInt(cmd.createdAt))])
            /\ resp' = [resp EXCEPT ![p] = OkResp(cmd.createdAt)]
            /\ RecordSubmit(cmd.deviceId, cmd.type, cmd.durationMinutes,
                            cmd.createdAt)
       ELSE /\ resp' = [resp EXCEPT ![p] = ErrResp(500, "put failed")]
            /\ UNCHANGED <<table, history>>
    /\ pc' = [pc EXCEPT ![p] = "done"]
    /\ UNCHANGED <<config, now, volatileVars, statsTable, call, local>>

\* variant of laundryLatestCheck: the test of the token is missing
laundryLatestCheckNoToken(req, secret) ==
    IF TrimSpace(req.deviceId) = <<>> THEN ErrResp(400, "deviceId required")
    ELSE NoResp

\* laundryLatest, the checks before GetItem (the device id already trimmed)
laundryLatestCheck(req, secret) ==
    IF TrimSpace(req.deviceId) = <<>> THEN ErrResp(400, "deviceId required")
    ELSE IF req.token = "" \/ secret = "" \/ ~timingSafeEq(req.token, secret)
         THEN ErrResp(401, "unauthorized")
    ELSE NoResp

\* laundryLatest up to GetItem
laundryLatest(p, req) ==
    /\ backend = "durable"
    /\ Free(p)
    /\ req.op = "latest"
    /\ LET r == laundryLatestCheck(req, sharedSecret) IN
       IF r.status # 0 THEN Reject(p, req, r)
       ELSE Accept(p, req, "get", NoLocal, now)

\* cmd := &Command{DeviceID: deviceID} filled from the item's attributes
ItemCommand(k, item) ==
    [deviceId |-> k,
     type |-> IF "type" \in DOMAIN item /\ "S" \in DOMAIN item.type
              THEN item.type.S ELSE "",
     durationMinutes |->
         IF "durationMinutes" \in DOMAIN item /\ "N" \in DOMAIN item.durationMinutes
         THEN mustInt64(item.durationMinutes.N) ELSE 0,
     createdAt |->
         IF "createdAt" \in DOMAIN item /\ "N" \in DOMAIN item.createdAt
         THEN mustInt64(item.createdAt.N) ELSE 0]

\* if _, ok := out.Item["servedAt"]; ok: already served
HasServedAt(item) == "servedAt" \in DOMAIN item

\* laundryLatest: the consistent GetItem and the serve-once test
laundryLatest_get(p, ok) ==
    /\ backend = "durable"
    /\ pc[p] = "get"
    /\ LET k == TrimSpace(call[p].deviceId) IN
       IF ~ok
       THEN /\ resp' = [resp EXCEPT ![p] = ErrResp(500, "get failed")]
            /\ pc' = [pc EXCEPT ![p] = "done"]
            /\ UNCHANGED <<local, history>>
       ELSE IF ~HasItem(table, k) \/ HasServedAt(table[k])
       THEN /\ resp' = [resp EXCEPT ![p] = NullResp]
            /\ pc' = [pc EXCEPT ![p] = "done"]
            /\ RecordPoll(p, k, FALSE)
            /\ UNCHANGED local
       ELSE /\ local' = [local EXCEPT ![p] =
                   [cmd |-> ItemCommand(k, table[k]), ok |-> TRUE,
                    deliver |-> TRUE]]
            /\ readInst' = [readInst EXCEPT ![p] = inst[k]]
            /\ pc' = [pc EXCEPT ![p] = "update"]
            /\ UNCHANGED <<resp, inst, delivered, last, fresh, lastStats>>
    /\ UNCHANGED <<config, now, volatileVars, durableVars, call>>

\* variant of laundryLatestAnswer: a mark that failed aborts the delivery
laundryLatestAnswerChecked(cmd, marked) ==
    IF marked THEN CommandResp(cmd) ELSE ErrResp(500, "update failed")

\* _, _ = s.ddb.UpdateItem(...); return resp(200, LatestResponse{Command: cmd}):
\* the answer is the command read, whether the mark was written or not
laundryLatestAnswer(cmd, marked) == CommandResp(cmd)

\* laundryLatest: UpdateItem SET servedAt = :now, its error dropped; the answer
laundryLatest_update(p, ok) ==
    /\ backend = "durable"
    /\ pc[p] = "update"
    /\ \E t \in ClockReadings :
         /\ now' = t
         /\ LET k == TrimSpace(call[p].deviceId) IN
            /\ table' = IF ok
                        THEN UpdateItem(table, k, "servedAt", AttrN(FormatInt(t)))
                        ELSE table
            /\ RecordPoll(p, k, TRUE)
    /\ resp' = [resp EXCEPT ![p] = laundryLatestAnswer(local[p].cmd, ok)]
    /\ pc' = [pc EXCEPT ![p] = "done"]
    /\ UNCHANGED <<config, volatileVars, statsTable, call, local>>

(***************************************************************************)
(* Stats store: src/laundryUpdateStats/main.go, src/laundryGetStats/main.go.*)
(***************************************************************************)
\* {"ok": true, "lastUpdatedAt": updatedAtStr}
StatsOkResp(updatedAtStr) ==
    [status |-> 200, error |-> "", ok |-> TRUE, lastUpdatedAt |-> updatedAtStr]

\* resp(200, stats)
StatsResp(stats) ==
    [status |-> 200, error |-> "", ok |-> FALSE, stats |-> stats]

\* laundryUpdateStats, the checks before PutItem
laundryUpdateStatsCheck(req, secret) ==
    IF ~req.json THEN ErrResp(400, "invalid json")
    ELSE IF req.token = "" \/ secret = "" \/ ~timingSafeEq(req.token, secret)
         THEN ErrResp(401, "unauthorized")
    ELSE IF TrimSpace(req.deviceId) = <<>> THEN ErrResp(400, "deviceId required")
    ELSE NoResp

\* laundryUpdateStats up to PutItem: decode, trim, check, format the numbers,
\* read the clock
laundryUpdateStats(p, req) ==
    /\ backend = "durable"
    /\ Free(p)
    /\ req.op = "setStats"
    /\ LET r == laundryUpdateStatsCheck(req, sharedSecret) IN
       IF r.status # 0 THEN Reject(p, req, r)
       ELSE \E t \in ClockReadings :
                Accept(p, req, "statsPut",
                    [NoLocal EXCEPT !.cmd =
                        [deviceId |-> TrimSpace(req.deviceId),
                         totalSpentStr |-> FormatFloat(req.totalSpent),
                         numRunsStr |-> FormatInt(req.numRuns),
                         updatedAtStr |-> FormatInt(t)]], t)

\* laundryUpdateStats: PutItem of the four attributes, then the answer
laundryUpdateStats_put(p, ok) ==
    /\ backend = "durable"
    /\ pc[p] = "statsPut"
    /\ LET st == local[p].cmd IN
       IF ok
       THEN /\ statsTable' = PutItem(statsTable, st.deviceId,
                   [deviceId |-> AttrS(st.deviceId),
                    totalSpent |-> AttrN(st.totalSpentStr),
                    numRuns |-> AttrN(st.numRunsStr),
                    updatedAt |-> AttrN(st.updatedAtStr)])
            /\ resp' = [resp EXCEPT ![p] = StatsOkResp(st.updatedAtStr)]
            /\ lastStats' = [lastStats EXCEPT ![st.deviceId] =
                   [written |-> TRUE, totalSpent |-> call[p].totalSpent,
                    numRuns |-> call[p].numRuns]]
       ELSE /\ resp' = [resp EXCEPT ![p] = ErrResp(500, "put failed")]
            /\ UNCHANGED <<statsTable, lastStats>>
    /\ pc' = [pc EXCEPT ![p] = "done"]
    /\ UNCHANGED <<config, now, volatileVars, table, call, local>>
    /\ UNCHANGED <<inst, readInst, delivered, last, fresh>>

\* laundryGetStats, the checks before GetItem (the device id already trimmed)
laundryGetStatsCheck(req, secret) ==
    IF TrimSpace(req.deviceId) = <<>> THEN ErrResp(400, "deviceId required")
    ELSE IF req.token = "" \/ secret = "" \/ ~timingSafeEq(req.token, secret)
         THEN ErrResp(401, "unauthorized")
    ELSE NoResp

\* laundryGetStats up to GetItem
laundryGetStats(p, req) ==
    /\ backend = "durable"
    /\ Free(p)
    /\ req.op = "getStats"
    /\ LET r == laundryGetStatsCheck(req, sharedSecret) IN
       IF r.status # 0 THEN Reject(p, req, r)
       ELSE Accept(p, req, "statsGet", NoLocal, now)

\* stats := &Stats{DeviceID: deviceID} filled from the item's attributes: the
\* answer of laundryGetStats to an item
ItemStats(k, item) ==
    LET hasTotal == "totalSpent" \in DOMAIN item /\ "N" \in DOMAIN item.totalSpent
        hasRuns == "numRuns" \in DOMAIN item /\ "N" \in DOMAIN item.numRuns
        total == IF hasTotal THEN ParseFloat(item.totalSpent.N)
                 ELSE [ok |-> TRUE, val |-> 0]
        runs == IF hasRuns THEN ParseInt(item.numRuns.N)
                ELSE [ok |-> TRUE, val |-> 0]
    IN  IF ~total.ok THEN ErrResp(500, "float conversion failed")
        ELSE IF ~runs.ok THEN ErrResp(500, "int conversion failed")
        ELSE StatsResp([deviceId |-> k, totalSpent |-> total.val,
                        numRuns |-> runs.val])

\* laundryGetStats: the consistent GetItem and the answer
laundryGetStats_get(p, ok) ==
    /\ backend = "durable"
    /\ pc[p] = "statsGet"
    /\ LET k == TrimSpace(call[p].deviceId) IN
       resp' = [resp EXCEPT ![p] =
           IF ~ok THEN ErrResp(500, "get failed")
           ELSE IF ~HasItem(statsTable, k) THEN ErrResp(404, "not found")
           ELSE ItemStats(k, statsTable[k])]
    /\ pc' = [pc EXCEPT ![p] = "done"]
    /\ UNCHANGED <<config, now, volatileVars, durableVars, call, local, history>>

(***************************************************************************)
(* Specifications.                                                         *)
(***************************************************************************)
\* storage calls that succeed
Reliable == {TRUE}

\* Calls made one at a time, every storage call succeeding.
Next ==
    \/ \E p \in SeqProcs :
        \/ \E req \in Requests : Quiet /\ startMachine(p, req)
        \/ startMachine_store(p)
        \/ \E req \in Requests : Quiet /\ getLatest(p, req)
        \/ getLatest_lock(p)
        \/ getLatest_load(p)
        \/ getLatest_compare(p)
        \/ getLatest_mark(p)
        \/ getLatest_write(p)
        \/ \E req \in Requests : Quiet /\ laundryStart(p, req)
        \/ \E ok \in Reliable : laundryStart_put(p, ok)
        \/ \E req \in Requests : Quiet /\ laundryLatest(p, req)
        \/ \E ok \in Reliable : laundryLatest_get(p, ok)
        \/ \E ok \in Reliable : laundryLatest_update(p, ok)
        \/ Return(p)

Spec == Init /\ [][Next]_vars

\* Concurrent calls for one device, every storage call succeeding.
RaceNext ==
    \/ \E p \in Procs :
        \/ \E req \in RaceRequests : startMachine(p, req)
        \/ startMachine_store(p)
        \/ \E req \in RaceRequests : getLatest(p, req)
        \/ getLatest_lock(p)
        \/ getLatest_load(p)
        \/ getLatest_compare(p)
        \/ getLatest_mark(p)
        \/ getLatest_write(p)
        \/ \E req \in RaceRequests : laundryStart(p, req)
        \/ \E ok \in Reliable : laundryStart_put(p, ok)
        \/ \E req \in RaceRequests : laundryLatest(p, req)
        \/ \E ok \in Reliable : laundryLatest_get(p, ok)
        \/ \E ok \in Reliable : laundryLatest_update(p, ok)
        \/ Return(p)

SpecRace == Init /\ [][RaceNext]_vars

\* Both deployments side by side: every call is made to the volatile
\* deployment, served there by VolatileProc, and then, with the same request
\* and the same clock reading, to the durable one, served by DurableProc.
\* `backend` is the deployment the call is at.
VolatileProc == 1

DurableProc == 2

\* valid submits and polls of one device
PairRequests ==
    [op : {"start"}, method : {"POST"}, json : {TRUE}, deviceId : {<<"A">>},
     token : {Secret}, type : {"wash", "dry"}, durationMinutes : {30}]
    \cup [op : {"latest"}, method : {"GET"}, json : {TRUE}, deviceId : {<<"A">>},
          token : {Secret}, type : {""}, durationMinutes : {0}]

InitPair == Init /\ backend = "volatile" /\ sharedSecret = Secret

\* the volatile deployment has answered: the same call goes to the durable one
\* (the history counts the call once: a submit is taken back here and counted
\* when the durable store takes it)
PairForward ==
    /\ backend = "volatile"
    /\ pc[VolatileProc] = "done"
    /\ backend' = "durable"
    /\ inst' = IF call[VolatileProc].op = "start" /\ resp[VolatileProc].status = 200
               THEN [inst EXCEPT ![call[VolatileProc].deviceId] = @ - 1]
               ELSE inst
    /\ UNCHANGED <<sharedSecret, now, volatileVars, durableVars, procVars>>
    /\ UNCHANGED <<readInst, delivered, last, fresh, lastStats>>

\* the durable deployment takes the call the volatile one has answered, its
\* clock reading the one the volatile deployment made
PairStart ==
    /\ pc[VolatileProc] = "done"
    /\ laundryStart(DurableProc, call[VolatileProc])
    /\ now' = now

PairLatest ==
    /\ pc[VolatileProc] = "done"
    /\ laundryLatest(DurableProc, call[VolatileProc])

\* both deployments have answered and both answers are gone to the caller
PairReturn ==
    /\ backend = "durable"
    /\ pc[VolatileProc] = "done"
    /\ pc[DurableProc] = "done"
    /\ backend' = "volatile"
    /\ pc' = [p \in Procs |-> "idle"]
    /\ call' = [p \in Procs |-> NoRequest]
    /\ local' = [p \in Procs |-> NoLocal]
    /\ resp' = [p \in Procs |-> NoResp]
    /\ readInst' = [p \in Procs |-> 0]
    /\ UNCHANGED <<sharedSecret, now, volatileVars, durableVars>>
    /\ UNCHANGED <<inst, delivered, last, fresh, lastStats>>

PairNext ==
    \/ \E req \in PairRequests : Quiet /\ startMachine(VolatileProc, req)
    \/ startMachine_store(VolatileProc)
    \/ \E req \in PairRequests : Quiet /\ getLatest(VolatileProc, req)
    \/ getLatest_lock(VolatileProc)
    \/ getLatest_load(VolatileProc)
    \/ getLatest_compare(VolatileProc)
    \/ getLatest_mark(VolatileProc)
    \/ getLatest_write(VolatileProc)
    \/ PairForward
    \/ PairStart
    \/ \E ok \in Reliable : laundryStart_put(DurableProc, ok)
    \/ PairLatest
    \/ \E ok \in Reliable : laundryLatest_get(DurableProc, ok)
    \/ \E ok \in Reliable : laundryLatest_update(DurableProc, ok)
    \/ PairReturn

SpecPair == InitPair /\ [][PairNext]_vars

\* Calls made one at a time, storage calls succeeding or failing.
Unreliable == {TRUE, FALSE}

\* valid submits of device "A", and every poll
FailRequests ==
    [op : {"start"}, method : {"POST"}, json : {TRUE}, deviceId : {<<"A">>},
     token : {Secret}, type : {"wash", "dry"}, durationMinutes : {30}]
    \cup LatestRequests

\* the mark of the submit p has read may fail MaxFailedMarks times
MayFail(p, ok) ==
    \/ ok
    \/ /\ readInst[p] \in 1..MaxSubmits
       /\ delivered[TrimSpace(call[p].deviceId)][readInst[p]] < MaxFailedMarks

FailNext ==
    \/ \E p \in SeqProcs :
        \/ \E req \in FailRequests : Quiet /\ startMachine(p, req)
        \/ startMachine_store(p)
        \/ \E req \in FailRequests : Quiet /\ getLatest(p, req)
        \/ getLatest_lock(p)
        \/ getLatest_load(p)
        \/ getLatest_compare(p)
        \/ getLatest_mark(p)
        \/ getLatest_write(p)
        \/ \E req \in FailRequests : Quiet /\ laundryStart(p, req)
        \/ \E ok \in Unreliable : laundryStart_put(p, ok)
        \/ \E req \in FailRequests : Quiet /\ laundryLatest(p, req)
        \/ \E ok \in Unreliable : laundryLatest_get(p, ok)
        \/ \E ok \in Unreliable : MayFail(p, ok) /\ laundryLatest_update(p, ok)
        \/ Return(p)

SpecFail == Init /\ [][FailNext]_vars

\* Concurrent calls for two devices, every storage call succeeding.  Each
\* process serves the calls of one device: the processes with an odd number
\* those of "A", the others those of "B".
IsoDevices(p) == IF p % 2 = 1 THEN {<<"A">>} ELSE {<<"B">>}

IsoRequests(p) ==
    [op : {"start"}, method : {"POST"}, json : {TRUE},
     deviceId : IsoDevices(p), token : {Secret}, type : {"wash"},
     durationMinutes : {30}]
    \cup [op : {"latest"}, method : {"GET"}, json : {TRUE},
          deviceId : IsoDevices(p), token : {Secret}, type : {""},
          durationMinutes : {0}]

IsoNext ==
    \/ \E p \in Procs :
        \/ \E req \in IsoRequests(p) : startMachine(p, req)
        \/ startMachine_store(p)
        \/ \E req \in IsoRequests(p) : getLatest(p, req)
        \/ getLatest_lock(p)
        \/ getLatest_load(p)
        \/ getLatest_compare(p)
        \/ getLatest_mark(p)
        \/ getLatest_write(p)
        \/ \E req \in IsoRequests(p) : laundryStart(p, req)
        \/ \E ok \in Reliable : laundryStart_put(p, ok)
        \/ \E req \in IsoRequests(p) : laundryLatest(p, req)
        \/ \E ok \in Reliable : laundryLatest_get(p, ok)
        \/ \E ok \in Reliable : laundryLatest_update(p, ok)
        \/ Return(p)

SpecIso == Init /\ [][IsoNext]_vars

\* The stats lambdas, calls made one at a time, storage calls succeeding or
\* failing.
InitStats == Init /\ backend = "durable"

StatsNext ==
    \/ \E p \in SeqProcs :
        \/ \E req \in StatsRequests : Quiet /\ laundryUpdateStats(p, req)
        \/ \E ok \in Unreliable : laundryUpdateStats_put(p, ok)
        \/ \E req \in StatsRequests : Quiet /\ laundryGetStats(p, req)
        \/ \E ok \in Unreliable : laundryGetStats_get(p, ok)
        \/ Return(p)

SpecStats == InitStats /\ [][StatsNext]_vars

(***************************************************************************)
(* Vocabulary of the properties.                                           *)
(***************************************************************************)
\* the key under which the deployment keeps the device of a request
KeyOf(req) ==
    IF backend = "volatile" THEN req.deviceId ELSE TrimSpace(req.deviceId)

\* what a poll response delivers: the fields of its command, NoSubmit if null
Outcome(r) ==
    IF r.hasCommand
    THEN [type |-> r.command.type,
          durationMinutes |-> r.command.durationMinutes,
          createdAt |-> r.command.createdAt]
    ELSE NoSubmit

\* this step is the one in which p's poll is answered 200
PollAnswered(p) ==
    /\ pc[p] # "done"
    /\ pc'[p] = "done"
    /\ call'[p].op = "latest"
    /\ resp'[p].status = 200

\* the submit a poll of key k has to deliver: the last one accepted for k, if
\* no poll of k was answered since
Owed(k) == IF fresh[k] THEN last[k] ELSE NoSubmit

\* the request carries the configured secret
ValidToken(req) == req.token # "" /\ req.token = sharedSecret

\* the request is a well-formed call of its operation
WellFormed(req) ==
    /\ req.json
    /\ backend = "volatile" =>
          req.method = (IF req.op = "start" THEN "POST" ELSE "GET")

\* the mailbox stores of both deployments
stores == <<latestByDevice, lastServedAt, table>>

(***************************************************************************)
(* Serve-once delivery.                                                    *)
(***************************************************************************)
\* C1: volatile backend, calls made one at a time: every poll answered 200
\* (here: of a device whose id has no surrounding blanks) returns the command
\* of the submit last accepted for its device when no poll of the device was
\* answered since that submit, and null otherwise, whatever createdAt values
\* the clock hands out.
C1_VolatileSubmitThenPollOnce ==
    [][\A p \in Procs :
          (/\ backend = "volatile"
           /\ PollAnswered(p)
           /\ TrimSpace(call'[p].deviceId) = call'[p].deviceId)
              => /\ Outcome(resp'[p]) = Owed(KeyOf(call'[p]))
                 /\ resp'[p].hasCommand
                       => resp'[p].command.deviceId = KeyOf(call'[p])]_vars

\* C2: durable backend, calls made one at a time, storage calls succeeding:
\* every poll answered 200 returns the command of the submit last accepted
\* for its device when no poll of the device was answered since that submit,
\* and null otherwise.
C2_DurableSubmitThenPollOnce ==
    [][\A p \in Procs :
          (backend = "durable" /\ PollAnswered(p))
              => /\ Outcome(resp'[p]) = Owed(KeyOf(call'[p]))
                 /\ resp'[p].hasCommand
                       => resp'[p].command.deviceId = KeyOf(call'[p])]_vars

\* a durable poll has returned the second submit of a device after another
\* poll had returned the first
C2_Witness ==
    \E p \in Procs :
        /\ backend = "durable"
        /\ pc[p] = "done"
        /\ call[p].op = "latest"
        /\ resp[p].hasCommand
        /\ inst[KeyOf(call[p])] = 2
        /\ delivered[KeyOf(call[p])][1] = 1
        /\ delivered[KeyOf(call[p])][2] = 1

\* C3: volatile backend, concurrent polls: no accepted submit is returned by
\* more than one poll.
C3_VolatileAtMostOnce ==
    backend = "volatile"
        => \A k \in AllKeys : \A n \in 1..MaxSubmits : delivered[k][n] <= 1

\* a volatile poll is about to answer with the command while another poll of
\* the same device waits for the mutex
C3_Witness ==
    \E p, q \in Procs :
        /\ backend = "volatile"
        /\ p # q
        /\ pc[p] = "write"
        /\ local[p].deliver
        /\ pc[q] = "lock"
        /\ call[q].deviceId = call[p].deviceId

\* C4: durable backend, concurrent polls whose GetItem and UpdateItem
\* interleave: no accepted submit is returned by more than one poll.
C4_DurableAtMostOnce ==
    backend = "durable"
        => \A k \in AllKeys : \A n \in 1..MaxSubmits : delivered[k][n] <= 1

\* C5: durable backend: the item of a device carries servedAt only if some
\* poll has returned the submit the item holds.
C5_ServedOnlyIfDelivered ==
    backend = "durable"
        => \A k \in DOMAIN table :
               HasServedAt(table[k])
                   => inst[k] > 0 /\ delivered[k][inst[k]] >= 1

(***************************************************************************)
(* Last write wins; polls that find nothing; rejected requests.            *)
(***************************************************************************)
\* C6: both backends, calls made one at a time: a poll that returns a command
\* returns the type, durationMinutes and createdAt of the submit last accepted
\* for its device, never those of an earlier one; and when two or more submits
\* were accepted for a device of which no poll has returned a command yet, the
\* poll does return that last submit.
C6_LastSubmitWins ==
    [][\A p \in Procs :
          PollAnswered(p)
              => LET k == KeyOf(call'[p]) IN
                 /\ resp'[p].hasCommand
                       => /\ Outcome(resp'[p]) = last[k]
                          /\ resp'[p].command.deviceId = k
                 /\ (/\ inst[k] >= 2
                     /\ \A n \in 1..MaxSubmits : delivered[k][n] = 0)
                       => /\ resp'[p].hasCommand
                          /\ Outcome(resp'[p]) = last[k]]_vars

\* a poll has returned the second submit of a device whose first submit no
\* poll ever returned, the two submits differing in type
C6_Witness ==
    \E p \in Procs :
        LET k == KeyOf(call[p]) IN
        /\ pc[p] = "done"
        /\ call[p].op = "latest"
        /\ resp[p].hasCommand
        /\ inst[k] = 2
        /\ delivered[k][1] = 0
        /\ delivered[k][2] = 1
        /\ resp[p].command.type = "dry"

\* no submit is stored for key k
NoCommand(k) == inst[k] = 0

\* the submit stored for key k was returned by a poll
AlreadyServed(k) == inst[k] > 0 /\ delivered[k][inst[k]] >= 1

\* C7: both backends, calls made one at a time: while a poll is served for a
\* device with no stored command, or whose stored command a poll has already
\* returned, no step changes the stored commands or the consumption markers,
\* and the poll is answered 200 with null.
C7_EmptyPollChangesNothing ==
    [][\A p \in Procs :
          (/\ call[p].op = "latest"
           /\ pc[p] \notin {"idle", "done"}
           /\ NoCommand(KeyOf(call[p])) \/ AlreadyServed(KeyOf(call[p])))
              => /\ stores' = stores
                 /\ pc'[p] = "done"
                       => resp'[p].status = 200 /\ ~resp'[p].hasCommand]_vars

\* a poll of a device whose stored command had been returned before was
\* answered null
C7_Witness ==
    \E p \in Procs :
        /\ pc[p] = "done"
        /\ call[p].op = "latest"
        /\ resp[p].status = 200
        /\ ~resp[p].hasCommand
        /\ AlreadyServed(KeyOf(call[p]))

\* C8: both backends: a well-formed submit with the configured secret and a
\* device id that is empty or whitespace only is answered 400, and no store
\* holds a command under such an id.
C8_BlankDeviceRejected ==
    /\ \A p \in Procs :
          (/\ pc[p] = "done"
           /\ call[p].op = "start"
           /\ WellFormed(call[p])
           /\ ValidToken(call[p])
           /\ TrimSpace(call[p].deviceId) = <<>>)
              => resp[p].status = 400
    /\ \A k \in DOMAIN latestByDevice \cup DOMAIN table : TrimSpace(k) # <<>>

\* C9: both backends: a well-formed submit or poll whose token is empty or
\* differs from the configured secret is answered 401, whatever its device id.
C9_BadTokenUnauthorized ==
    \A p \in Procs :
        (/\ pc[p] = "done"
         /\ call[p].op \in {"start", "latest"}
         /\ WellFormed(call[p])
         /\ ~ValidToken(call[p]))
            => resp[p].status = 401

\* what the next poll of key k returns, read off the stores
NextPoll(k) ==
    IF backend = "volatile"
    THEN IF k \in DOMAIN latestByDevice
            /\ LoadServedAt(lastServedAt, k) < latestByDevice[k].createdAt
         THEN [type |-> latestByDevice[k].type,
               durationMinutes |-> latestByDevice[k].durationMinutes,
               createdAt |-> latestByDevice[k].createdAt]
         ELSE NoSubmit
    ELSE IF k \in DOMAIN table /\ ~HasServedAt(table[k])
         THEN LET c == ItemCommand(k, table[k]) IN
              [type |-> c.type, durationMinutes |-> c.durationMinutes,
               createdAt |-> c.createdAt]
         ELSE NoSubmit

\* the request is a well-formed submit with the configured secret and a
\* non-empty device id, whose type or duration is invalid
BadCommand(req) ==
    /\ req.op = "start"
    /\ WellFormed(req)
    /\ ValidToken(req)
    /\ req.deviceId # <<>>
    /\ req.type \notin {"wash", "dry"} \/ req.durationMinutes <= 0

\* C10: both backends: a well-formed submit with the configured secret and a
\* non-empty device id, whose type is neither wash nor dry or whose duration
\* is <= 0, is answered 400 at once and changes neither the stored commands
\* nor the consumption markers, so that every device's next poll returns what
\* it would have returned before.
C10_BadCommandRejected ==
    [][\A p \in Procs :
          (pc[p] = "idle" /\ pc'[p] # "idle" /\ BadCommand(call'[p]))
              => /\ pc'[p] = "done"
                 /\ resp'[p].status = 400
                 /\ stores' = stores
                 /\ \A k \in AllKeys : NextPoll(k)' = NextPoll(k)]_vars

\* a submit with an invalid type or duration was answered 400 while a command
\* was pending for its device
C10_Witness ==
    \E p \in Procs :
        /\ pc[p] = "done"
        /\ BadCommand(call[p])
        /\ resp[p].status = 400
        /\ KeyOf(call[p]) \in AllKeys
        /\ fresh[KeyOf(call[p])]
        /\ NextPoll(KeyOf(call[p])) = last[KeyOf(call[p])]

(***************************************************************************)
(* The two deployments against each other.                                 *)
(***************************************************************************)
\* the volatile store holds a command for k that is newer than the watermark
EligibleVolatile(k) ==
    /\ k \in DOMAIN latestByDevice
    /\ latestByDevice[k].createdAt > LoadServedAt(lastServedAt, k)

\* the durable store holds an item for k that carries no servedAt
EligibleDurable(k) == HasItem(table, k) /\ ~HasServedAt(table[k])

\* C11: calls made one at a time to both deployments, with the same requests
\* and clock readings, storage calls succeeding: the two answers to every call
\* have the same status and deliver the same command fields (or both null),
\* and between calls the two stores hold the same devices' commands as
\* eligible for delivery.
C11_BackendsEquivalent ==
    /\ (/\ backend = "durable"
        /\ pc[VolatileProc] = "done"
        /\ pc[DurableProc] = "done")
          => /\ resp[VolatileProc].status = resp[DurableProc].status
             /\ resp[VolatileProc].hasCommand = resp[DurableProc].hasCommand
             /\ Outcome(resp[VolatileProc]) = Outcome(resp[DurableProc])
    /\ (backend = "volatile" /\ Quiet)
          => \A k \in AllKeys : EligibleVolatile(k) <=> EligibleDurable(k)

(***************************************************************************)
(* Storage calls that fail.                                                *)
(***************************************************************************)
\* C12: durable backend, calls made one at a time: the step that marks the
\* command served answers 200 with the command the poll read, whether the
\* mark is written or not.  When it is not, the table is as it was, the item
\* carries no servedAt and the next poll of the device returns the same
\* command again; when it is, the next poll of the device returns null.
C12_FailedMarkRedelivers ==
    [][\A p \in Procs :
          (backend = "durable" /\ pc[p] = "update" /\ pc'[p] = "done")
              => LET k == KeyOf(call[p]) IN
                 /\ resp'[p] = CommandResp(local[p].cmd)
                 /\ k \in DOMAIN table'
                 /\ ~HasServedAt(table'[k])
                       => /\ table' = table
                          /\ NextPoll(k)' = Outcome(resp'[p])
                          /\ inst'[k] = readInst[p]
                 /\ HasServedAt(table'[k]) => NextPoll(k)' = NoSubmit]_vars

\* a durable poll has returned, for the second time, a submit whose first
\* delivery could not be marked
C12_Witness ==
    \E p \in Procs :
        /\ backend = "durable"
        /\ pc[p] = "done"
        /\ call[p].op = "latest"
        /\ resp[p].hasCommand
        /\ KeyOf(call[p]) \in AllKeys
        /\ \E n \in 1..MaxSubmits :
              /\ delivered[KeyOf(call[p])][n] = 2
              /\ last[KeyOf(call[p])] = Outcome(resp[p])

\* the request is a well-formed poll with the configured secret and a device id
\* that is not blank
GoodPoll(req) ==
    /\ req.op = "latest"
    /\ WellFormed(req)
    /\ ValidToken(req)
    /\ TrimSpace(req.deviceId) # <<>>

\* C14: both backends, storage calls succeeding or failing: a well-formed poll
\* with a device id that is not blank and the configured secret is answered
\* 200, and a poll is answered 200, 400 or 401 and nothing else, a failing read
\* of the durable item included.
C14_PollStatuses ==
    \A p \in Procs :
        (pc[p] = "done" /\ call[p].op = "latest" /\ WellFormed(call[p]))
            => /\ resp[p].status \in {200, 400, 401}
               /\ GoodPoll(call[p]) => resp[p].status = 200

\* C14 as amended: a well-formed poll with a device id that is not blank and
\* the configured secret is answered 200 with a command or null, except that
\* the durable backend answers 500 "get failed" when its read of the item
\* fails; a failed mark does not change the 200.  Every other well-formed poll
\* is answered 400 or 401, and the volatile backend answers 405 to a poll whose
\* method is not GET.
C14_PollStatusesAmended ==
    \A p \in Procs :
        (pc[p] = "done" /\ call[p].op = "latest")
            => /\ resp[p].status \in {200, 400, 401, 405, 500}
               /\ resp[p].status = 405
                     <=> (backend = "volatile" /\ call[p].method # "GET")
               /\ resp[p].status = 500
                     => /\ backend = "durable"
                        /\ GoodPoll(call[p])
                        /\ resp[p].error = "get failed"
                        /\ ~resp[p].hasCommand
               /\ resp[p].status = 200
                     => /\ ValidToken(call[p])
                        /\ call[p].deviceId # <<>>
                        /\ resp[p].error = ""
               /\ GoodPoll(call[p]) => resp[p].status \in {200, 500}
               /\ (GoodPoll(call[p]) /\ backend = "volatile")
                     => resp[p].status = 200

\* a durable poll with the configured secret was answered 500 while a command
\* was waiting for its device
C14_Witness ==
    \E p \in Procs :
        /\ pc[p] = "done"
        /\ GoodPoll(call[p])
        /\ resp[p].status = 500
        /\ fresh[KeyOf(call[p])]

(***************************************************************************)
(* Stats store.                                                            *)
(***************************************************************************)
\* the request is a stats read with the configured secret and a device id
\* that is not blank
GoodGetStats(req) ==
    /\ req.op = "getStats"
    /\ ValidToken(req)
    /\ TrimSpace(req.deviceId) # <<>>

\* a and b differ by at most half a cent
WithinHalfCent(a, b) ==
    /\ a - b <= MoneyUnit \div 200
    /\ b - a <= MoneyUnit \div 200

\* C13: a stats read with the configured secret and a device id that is not
\* blank, whose GetItem succeeds, is answered 404 when no write for the device
\* has succeeded, and otherwise 200 with the device id, with the numRuns of
\* the write that succeeded last, and with a totalSpent that is a whole number
\* of cents within half a cent of the totalSpent of that write (equal to it
\* when that is a whole number of cents); earlier writes do not count.
C13_StatsRoundTrip ==
    \A p \in Procs :
        (/\ pc[p] = "done"
         /\ GoodGetStats(call[p])
         /\ resp[p].error # "get failed")
            => LET k == TrimSpace(call[p].deviceId)
                   w == lastStats[k]
               IN  IF ~w.written THEN resp[p].status = 404
                   ELSE /\ resp[p].status = 200
                        /\ resp[p].stats.deviceId = k
                        /\ resp[p].stats.numRuns = w.numRuns
                        /\ resp[p].stats.totalSpent % (MoneyUnit \div 100) = 0
                        /\ WithinHalfCent(resp[p].stats.totalSpent, w.totalSpent)

\* a stats read was answered 0.19 and 12 runs for a device whose last write
\* carried 0.1875 and 12 runs
C13_Witness ==
    \E p \in Procs :
        /\ pc[p] = "done"
        /\ GoodGetStats(call[p])
        /\ resp[p].status = 200
        /\ lastStats[TrimSpace(call[p].deviceId)].totalSpent = 1875
        /\ resp[p].stats.totalSpent = 1900
        /\ resp[p].stats.numRuns = 12

\* C18: every record of the stats store has totalSpent >= 0 and numRuns >= 0.
C18_StatsNonNegative ==
    \A k \in DOMAIN statsTable :
        /\ ParseFloat(statsTable[k].totalSpent.N).val >= 0
        /\ ParseInt(statsTable[k].numRuns.N).val >= 0

(***************************************************************************)
(* Concurrent calls for different devices.                                 *)
(***************************************************************************)
\* C15: volatile backend: a call that waits for the mutex (a submit before its
\* store, a poll before its critical section) waits for a call of its own
\* device, never for one of another device; in particular not for a poll of
\* another device that holds the mutex while it writes its response.
C15_NoCrossDeviceBlocking ==
    backend = "volatile"
        => \A p, q \in Procs :
               (pc[p] \in {"store", "lock"} /\ mu = q)
                   => call[q].deviceId = call[p].deviceId

(***************************************************************************)
(* What a poll returns was submitted.                                      *)
(***************************************************************************)
\* type, durationMinutes and createdAt of a command
CommandFields(cmd) ==
    [type |-> cmd.type, durationMinutes |-> cmd.durationMinutes,
     createdAt |-> cmd.createdAt]

\* this step is the one in which the poll p reads a stored command
PollReads(p) ==
    /\ call[p].op = "latest"
    /\ \/ pc[p] = "load" /\ pc'[p] = "compare"
       \/ pc[p] = "get" /\ pc'[p] = "update"

\* this step is the one in which p's submit is answered 200
SubmitAnswered(p) ==
    /\ pc[p] \in {"store", "put"}
    /\ pc'[p] = "done"
    /\ resp'[p].status = 200

MailboxAttributes == {"deviceId", "type", "durationMinutes", "createdAt", "servedAt"}

\* C17: both backends: no entry of latestByDevice carries a token, no item of
\* the table has an attribute other than deviceId, type, durationMinutes,
\* createdAt and servedAt or the token as its type, and no poll response
\* carries a token.
C17_TokenNeverStored ==
    /\ \A k \in DOMAIN latestByDevice : latestByDevice[k].token = ""
    /\ \A k \in DOMAIN table :
          /\ DOMAIN table[k] \subseteq MailboxAttributes
          /\ "type" \in DOMAIN table[k] => table[k].type.S \notin Tokens \ {""}
    /\ \A p \in Procs :
          (pc[p] = "done" /\ call[p].op = "latest")
              => /\ "token" \in DOMAIN resp[p].command
                       => resp[p].command.token = ""
                 /\ resp[p].command.type \notin Tokens \ {""}

\* a volatile poll has returned a command whose submit carried the secret
C17_Witness ==
    \E p \in Procs :
        /\ backend = "volatile"
        /\ pc[p] = "done"
        /\ call[p].op = "latest"
        /\ resp[p].hasCommand
        /\ resp[p].command.token = ""
        /\ call[p].token = Secret
        /\ latestByDevice[call[p].deviceId].createdAt = resp[p].command.createdAt

(***************************************************************************)
(* The watermark of the volatile backend.                                  *)
(***************************************************************************)
\* some poll has marked a command of key k served and not answered yet
Marking(k) ==
    \E p \in Procs :
        pc[p] = "write" /\ local[p].deliver /\ call[p].deviceId = k

\* C19: volatile backend, concurrent calls: no step lowers the watermark of a
\* device; a step that changes lastServedAt is the mark of a poll, changes the
\* entry of the poll's device only, to the createdAt of the command the poll
\* has read, and that poll answers with this command; when a poll answers with
\* a command the watermark of its device is that command's createdAt; and the
\* watermark of a device for which no poll has returned or marked a command
\* is 0.
C19_WatermarkMonotone ==
    [][backend = "volatile"
          => /\ \A k \in AllKeys :
                   LoadServedAt(lastServedAt', k) >= LoadServedAt(lastServedAt, k)
             /\ lastServedAt' # lastServedAt
                   => \E p \in Procs :
                          /\ call[p].op = "latest"
                          /\ pc[p] = "mark"
                          /\ pc'[p] = "write"
                          /\ local'[p].deliver
                          /\ lastServedAt' =
                                 MapPut(lastServedAt, call[p].deviceId,
                                        local[p].cmd.createdAt)
             /\ \A p \in Procs :
                   (PollAnswered(p) /\ local[p].deliver)
                       => /\ resp'[p].hasCommand
                          /\ LoadServedAt(lastServedAt', call[p].deviceId)
                                 = resp'[p].command.createdAt
             /\ \A k \in AllKeys :
                   ((\A n \in 1..MaxSubmits : delivered[k][n] = 0) /\ ~Marking(k))
                       => LoadServedAt(lastServedAt, k) = 0]_vars

\* the watermark of a device has moved twice
C19_Witness ==
    \E k \in AllKeys :
        /\ backend = "volatile"
        /\ LoadServedAt(lastServedAt, k) = 2
        /\ delivered[k][1] = 1
        /\ delivered[k][2] = 1

(***************************************************************************)
(* Devices do not touch each other.                                        *)
(***************************************************************************)
\* what the stores hold for key k: the command and the consumption marker
Stored(k) ==
    IF backend = "volatile"
    THEN <<k \in DOMAIN latestByDevice, LoadCommand(latestByDevice, k),
           k \in DOMAIN lastServedAt, LoadServedAt(lastServedAt, k)>>
    ELSE <<HasItem(table, k), IF HasItem(table, k) THEN table[k] ELSE EmptyMap>>

\* the key of the device p works for in this step
StepKey(p) == IF pc[p] = "idle" THEN KeyOf(call'[p]) ELSE KeyOf(call[p])

\* C20: both backends, any interleaving: a step of a submit or a poll leaves
\* the stored command, the consumption marker and the result of the next
\* poll of every device other than its own as they were.
C20_DeviceIsolation ==
    [][\A p \in Procs :
          pc'[p] # pc[p]
              => \A k \in AllKeys \ {StepKey(p)} :
                     /\ Stored(k)' = Stored(k)
                     /\ NextPoll(k)' = NextPoll(k)]_vars

\* a poll has returned the command of one device while a command of the other
\* device was waiting, and is waiting still
C20_Witness ==
    \E p \in Procs : \E k \in AllKeys :
        /\ pc[p] = "done"
        /\ call[p].op = "latest"
        /\ resp[p].hasCommand
        /\ k # KeyOf(call[p])
        /\ inst[k] = 1
        /\ delivered[k][1] = 0
        /\ NextPoll(k) = last[k]

====
